---- MODULE Spec2Model ----
(***************************************************************************)
(* Finite-field elements (chapter_01, three implementations) and points of *)
(* a short Weierstrass curve y^2 = x^3 + a*x + b over the integers         *)
(* (chapter_02, three implementations).                                    *)
(*                                                                         *)
(* Every operation of the crates is a pure function; it is written here as *)
(* an operator that returns either a value or the way the call ends        *)
(* (panic / Err).  The state machine applies the operations one call at a  *)
(* time to the value the previous call returned and records the call.      *)
(***************************************************************************)
EXTENDS Integers, Sequences, FiniteSets, TLC

VARIABLES
    crate,    \* the implementation that is exercised in this run
    build,    \* "debug" (overflow checks on) or "release" (wrapping arithmetic)
    flast,    \* chapter_01: the last call, its operands and what it returned
    plast     \* chapter_02: the last call, its operands and what it returned

vars == <<crate, build, flast, plast>>

(***************************************************************************)
(* Bounds of the model.                                                    *)
(***************************************************************************)
\* moduli 0..MaxModulus are offered to the constructors
MaxModulus == 13
\* raw values MinValue..MaxValue are offered to the constructors
\* (MinValue is written as 0 - MinValueMag)
MinValueMag == 1
MaxValue == 14
\* exponents -MaxExp..MaxExp are offered to pow
MaxExp == 13

\* curve parameters a in -MinAMag..MaxA and b in 0..MaxB, coordinates
\* x in -MaxX..MaxX and y in -MaxY..MaxY are offered to the constructors
MinAMag == 1
MaxA == 5
MaxB == 7
MaxX == 3
MaxY == 7
\* an addition is followed only while its slope and the coordinates it
\* computes stay inside these magnitudes (inside them no i32 / i64
\* operation of the crates overflows)
MaxSlope == 40000
MaxMidX == 1000
MaxMidY == 40000
\* at most MaxAdds additions follow a construction
MaxAdds == 2

FieldCrates == {"ch01_impl01", "ch01_impl02", "ch01_impl03"}
PointCrates == {"ch02_impl01", "ch02_impl02", "ch02_impl03"}
Builds == {"debug", "release"}

(***************************************************************************)
(* Exact naturals beyond 32-bit machine integers: little-endian            *)
(* sequences of 16-bit limbs.  Used for the unreduced products of          *)
(* u32::pow (implementation_01) and of `value *= self.value`               *)
(* (implementation_03), whose width is what decides overflow.              *)
(***************************************************************************)
Base == 2^16
HalfBase == 2^15

RECURSIVE MulSmallC(_, _, _)
MulSmallC(n, s, c) ==
    IF n = <<>>
    THEN (IF c = 0 THEN <<>> ELSE <<c>>)
    ELSE LET t == Head(n) * s + c
         IN  <<t % Base>> \o MulSmallC(Tail(n), s, t \div Base)

\* n * s for a limb sequence n and 0 <= s < 2^15
MulSmall(n, s) == IF s = 0 THEN <<>> ELSE MulSmallC(n, s, 0)

\* n mod m for a limb sequence n and 0 < m < 2^15
RECURSIVE ModSmall(_, _)
ModSmall(n, m) ==
    IF n = <<>> THEN 0 ELSE (ModSmall(Tail(n), m) * Base + Head(n)) % m

\* the exact power s^e as a limb sequence, 0 <= s < 2^15, e >= 0
RECURSIVE PowBig(_, _)
PowBig(s, e) == IF e = 0 THEN <<1>> ELSE MulSmall(PowBig(s, e - 1), s)

\* the low k limbs of n: n mod 2^(16*k)
Low(n, k) == IF Len(n) <= k THEN n ELSE SubSeq(n, 1, k)

\* no limb above the k-th is set: n < 2^(16*k)
FitsLimbs(n, k) == \A i \in 1..Len(n) : i > k => n[i] = 0

Abs(i) == IF i < 0 THEN 0 - i ELSE i

\* n + m for limb sequences, with carry c
RECURSIVE AddBigC(_, _, _)
AddBigC(n, m, c) ==
    IF n = <<>> /\ m = <<>>
    THEN (IF c = 0 THEN <<>> ELSE <<c>>)
    ELSE LET a == IF n = <<>> THEN 0 ELSE Head(n)
             b == IF m = <<>> THEN 0 ELSE Head(m)
             t == a + b + c
         IN  <<t % Base>> \o AddBigC(IF n = <<>> THEN <<>> ELSE Tail(n),
                                     IF m = <<>> THEN <<>> ELSE Tail(m),
                                     t \div Base)

AddBig(n, m) == AddBigC(n, m, 0)

\* n * d for a limb sequence n and one limb 0 <= d < 2^16
MulLimb(n, d) ==
    AddBig(MulSmall(MulSmall(n, d \div 256), 256), MulSmall(n, d % 256))

\* n * m for limb sequences
RECURSIVE MulBig(_, _)
MulBig(n, m) ==
    IF m = <<>> \/ n = <<>>
    THEN <<>>
    ELSE AddBig(MulLimb(n, Head(m)), <<0>> \o MulBig(n, Tail(m)))

\* the limbs of 0 <= v < 2^31
ToLimbs(v) ==
    IF v = 0 THEN <<>> ELSE IF v < Base THEN <<v>> ELSE <<v % Base, v \div Base>>

LimbAt(n, i) == IF i <= Len(n) THEN n[i] ELSE 0

\* n without its leading zero limbs
RECURSIVE Norm(_)
Norm(n) ==
    IF n = <<>> THEN <<>>
    ELSE IF n[Len(n)] = 0 THEN Norm(SubSeq(n, 1, Len(n) - 1))
    ELSE n

\* i128::rem_euclid / BigInt modpow(1, m) for m > 0: the remainder in [0, m)
RemEuclid(i, m) == i % m

(***************************************************************************)
(* What a call returns.                                                    *)
(***************************************************************************)
Elem(n, p) == [tag |-> "elem", num |-> n, prime |-> p]
Panic      == [tag |-> "panic", num |-> 0, prime |-> 0]
ErrNotPrime == [tag |-> "err", num |-> 0, prime |-> 0]
NoElem     == [tag |-> "none", num |-> 0, prime |-> 0]

IsElem(r) == r.tag = "elem"

(***************************************************************************)
(* chapter_01 / implementation_01: FieldElement { num: u32, prime: u32 }   *)
(***************************************************************************)
U32Limbs == 2

FE1_new(num, prime) ==
    IF num >= prime THEN Panic ELSE Elem(num, prime)

\* u32::pow(self.num, exponent) % self.prime.  The product overflows u32
\* exactly when the exact power needs more than U32Limbs limbs: the build
\* with overflow checks panics, the other one keeps the low 32 bits.
FE1_pow(self, power, bld) ==
    IF self.prime - 1 = 0
    THEN Panic                      \* i32::rem_euclid(0)
    ELSE LET exponent == RemEuclid(power, self.prime - 1)
             exact    == PowBig(self.num, exponent)
         IN  IF ~FitsLimbs(exact, U32Limbs) /\ bld = "debug"
             THEN Panic
             ELSE FE1_new(ModSmall(Low(exact, U32Limbs), self.prime), self.prime)

FE1_add(self, other) ==
    IF self.prime # other.prime
    THEN Panic
    ELSE Elem((self.num + other.num) % self.prime, self.prime)

FE1_mul(self, other) ==
    IF self.prime # other.prime
    THEN Panic
    ELSE Elem((self.num * other.num) % self.prime, self.prime)

FE1_div(self, other, bld) ==
    IF self.prime # other.prime
    THEN Panic
    ELSE IF other.num = 0
    THEN Panic
    ELSE LET other_inverse == FE1_pow(other, self.prime - 2, bld)
         IN  IF IsElem(other_inverse) THEN FE1_mul(self, other_inverse) ELSE Panic

(***************************************************************************)
(* chapter_01 / implementation_02: FieldElement { num: BigInt, prime }     *)
(***************************************************************************)
\* BigInt::modpow(base, exponent, modulus) for 0 <= base, 0 <= exponent,
\* modulus > 0: base^exponent mod modulus (1 mod modulus for exponent 0)
RECURSIVE ModPow(_, _, _)
ModPow(b, e, m) ==
    IF e = 0 THEN 1 % m ELSE (ModPow(b, e - 1, m) * (b % m)) % m

FE2_new(num, prime) ==
    IF num >= prime \/ num < 0 THEN Panic ELSE Elem(num, prime)

\* rem_euclid is BigInt::modpow(self, 1, rhs), which panics on a zero modulus
FE2_pow(self, exponent) ==
    IF self.prime - 1 = 0
    THEN Panic
    ELSE LET positive_exponent == RemEuclid(exponent, self.prime - 1)
         IN  Elem(ModPow(self.num, positive_exponent, self.prime), self.prime)

FE2_add(self, rhs) ==
    IF self.prime # rhs.prime
    THEN Panic
    ELSE Elem(RemEuclid(self.num + rhs.num, self.prime), self.prime)

FE2_sub(self, rhs) ==
    IF self.prime # rhs.prime
    THEN Panic
    ELSE Elem(RemEuclid(self.num - rhs.num, self.prime), self.prime)

FE2_mul(self, rhs) ==
    IF self.prime # rhs.prime
    THEN Panic
    ELSE Elem(RemEuclid(self.num * rhs.num, self.prime), self.prime)

\* no test of rhs.num = 0; prime - 2 is negative for prime = 1 and modpow
\* panics on a negative exponent
FE2_div(self, rhs) ==
    IF self.prime # rhs.prime
    THEN Panic
    ELSE LET exponent == self.prime - 2
         IN  IF exponent < 0
             THEN Panic
             ELSE LET rhs_factor == ModPow(rhs.num, exponent, self.prime)
                  IN  Elem((self.num * rhs_factor) % self.prime, self.prime)

(***************************************************************************)
(* chapter_01 / implementation_03: FiniteFieldElement<const P: u128>       *)
(* { value: i128 }                                                         *)
(***************************************************************************)
I128Limbs == 8

RECURSIVE is_prime_loop(_, _)
is_prime_loop(number_to_check, aux) ==
    IF aux * aux <= number_to_check
    THEN IF number_to_check % aux = 0
         THEN FALSE
         ELSE is_prime_loop(number_to_check, aux + 1)
    ELSE TRUE

is_prime(number_to_check) ==
    IF number_to_check = 1 THEN FALSE ELSE is_prime_loop(number_to_check, 2)

\* the value is stored as given
FFE3_new(value, P) ==
    IF ~is_prime(P) THEN ErrNotPrime ELSE Elem(value, P)

\* rem_euclid(P as i128) panics for P = 0
FFE3_add(self, other_number) ==
    IF self.prime = 0
    THEN Panic
    ELSE Elem(RemEuclid(self.num + other_number.num, self.prime), self.prime)

FFE3_sub(self, other_number) ==
    IF self.prime = 0
    THEN Panic
    ELSE Elem(RemEuclid(self.num - other_number.num, self.prime), self.prime)

FFE3_mul(self, other_number) ==
    IF self.prime = 0
    THEN Panic
    ELSE Elem(RemEuclid(self.num * other_number.num, self.prime), self.prime)

\* `for _ in 1..exp { value *= self.value; }` on exact magnitudes
RECURSIVE FFE3_pow_loop(_, _, _, _)
FFE3_pow_loop(value, self_value, i, exp) ==
    IF i >= exp
    THEN value
    ELSE FFE3_pow_loop(MulSmall(value, self_value), self_value, i + 1, exp)

\* the low 128 bits of a magnitude
Top128(m)  == Len(m) = I128Limbs /\ m[I128Limbs] >= HalfBase
Zero128(m) == \A i \in 1..Len(m) : m[i] = 0
Min128(m)  == /\ Len(m) = I128Limbs
              /\ m[I128Limbs] = HalfBase
              /\ \A i \in 1..(I128Limbs - 1) : m[i] = 0

\* the exact product (magnitude mag, negative iff neg) is an i128
FitsI128(mag, neg) ==
    /\ FitsLimbs(mag, I128Limbs)
    /\ (Top128(Low(mag, I128Limbs)) => (neg /\ Min128(Low(mag, I128Limbs))))

TwoPow128 == <<0, 0, 0, 0, 0, 0, 0, 0, 1>>

\* rem_euclid(P) of the two's-complement i128 that the wrapped product is
WrapRemEuclid(mag, neg, P) ==
    LET m == Low(mag, I128Limbs)
        r == ModSmall(m, P)
        T == ModSmall(TwoPow128, P)
    IN  IF ~neg
        THEN (IF Top128(m) THEN (r - T) % P ELSE r)
        ELSE IF Zero128(m) THEN 0
        ELSE IF Top128(m) /\ ~Min128(m) THEN (T - r) % P
        ELSE (0 - r) % P

\* P - 1 underflows u128 for P = 0 (checked build: panic; otherwise the
\* final rem_euclid(0) panics); rem_euclid(0) panics for P = 1.
FFE3_pow(self, n, bld) ==
    IF self.prime = 0 \/ self.prime - 1 = 0
    THEN Panic
    ELSE LET exp     == RemEuclid(n, self.prime - 1)
             factors == IF exp >= 1 THEN exp ELSE 1
             neg     == self.num < 0 /\ factors % 2 = 1
             start   == IF self.num = 0 THEN <<>> ELSE <<Abs(self.num)>>
             mag     == FFE3_pow_loop(start, Abs(self.num), 1, exp)
         IN  IF ~FitsI128(mag, neg) /\ bld = "debug"
             THEN Panic
             ELSE Elem(WrapRemEuclid(mag, neg, self.prime), self.prime)

\* self * other_number.pow(P - 2); P - 2 underflows u128 for P < 2
FFE3_div(self, other_number, bld) ==
    IF self.prime < 2
    THEN Panic
    ELSE LET inv == FFE3_pow(other_number, self.prime - 2, bld)
         IN  IF IsElem(inv) THEN FFE3_mul(self, inv) ELSE Panic

FFE3_mul_assign(self, other_number) ==
    IF self.prime = 0
    THEN Panic
    ELSE Elem(RemEuclid(self.num * other_number.num, self.prime), self.prime)

FFE3_add_assign(self, other_number) ==
    IF self.prime = 0
    THEN Panic
    ELSE Elem(RemEuclid(self.num + other_number.num, self.prime), self.prime)

FFE3_sub_assign(self, other_number) ==
    IF self.prime = 0
    THEN Panic
    ELSE Elem(RemEuclid(self.num - other_number.num, self.prime), self.prime)

(***************************************************************************)
(* Whether an intermediate value of a call leaves the integer type.        *)
(***************************************************************************)
\* u32::pow(self.num, exponent as u32), for prime > 1
FE1_pow_overflows(self, power) ==
    ~FitsLimbs(PowBig(self.num, RemEuclid(power, self.prime - 1)), U32Limbs)

\* self.num * other.num over u32
FE1_mul_overflows(self, other) ==
    ~FitsLimbs(MulSmall(ToLimbs(self.num), other.num), U32Limbs)

\* the repeated `value *= self.value` over i128, for P > 1
FFE3_pow_overflows(self, n) ==
    LET exp     == RemEuclid(n, self.prime - 1)
        factors == IF exp >= 1 THEN exp ELSE 1
        neg     == self.num < 0 /\ factors % 2 = 1
        start   == IF self.num = 0 THEN <<>> ELSE <<Abs(self.num)>>
    IN  ~FitsI128(FFE3_pow_loop(start, Abs(self.num), 1, exp), neg)

\* self.value * other_number.value over i128
FFE3_mul_overflows(self, other_number) ==
    ~FitsI128(MulSmall(ToLimbs(Abs(self.num)), Abs(other_number.num)),
              (self.num < 0) # (other_number.num < 0))

(***************************************************************************)
(* chapter_01: the calls a caller can make, by crate.                      *)
(***************************************************************************)
Moduli == 0..MaxModulus
\* u32 arguments are never negative
RawValues(c) ==
    IF c = "ch01_impl01" THEN 0..MaxValue ELSE (0 - MinValueMag)..MaxValue
Exponents == (0 - MaxExp)..MaxExp

FieldNew(c, value, modulus) ==
    CASE c = "ch01_impl01" -> FE1_new(value, modulus)
      [] c = "ch01_impl02" -> FE2_new(value, modulus)
      [] OTHER             -> FFE3_new(value, modulus)

FieldAdd(c, x, y) ==
    CASE c = "ch01_impl01" -> FE1_add(x, y)
      [] c = "ch01_impl02" -> FE2_add(x, y)
      [] OTHER             -> FFE3_add(x, y)

FieldSub(c, x, y) ==
    CASE c = "ch01_impl02" -> FE2_sub(x, y)
      [] OTHER             -> FFE3_sub(x, y)

FieldMul(c, x, y) ==
    CASE c = "ch01_impl01" -> FE1_mul(x, y)
      [] c = "ch01_impl02" -> FE2_mul(x, y)
      [] OTHER             -> FFE3_mul(x, y)

FieldDiv(c, x, y, bld) ==
    CASE c = "ch01_impl01" -> FE1_div(x, y, bld)
      [] c = "ch01_impl02" -> FE2_div(x, y)
      [] OTHER             -> FFE3_div(x, y, bld)

FieldPow(c, x, k, bld) ==
    CASE c = "ch01_impl01" -> FE1_pow(x, k, bld)
      [] c = "ch01_impl02" -> FE2_pow(x, k)
      [] OTHER             -> FFE3_pow(x, k, bld)

\* the elements a caller can pass as the right operand of x: the elements
\* the constructor returns over x's modulus and, where the modulus is a
\* run-time field, the zero of a neighbouring one (the mismatch); the
\* modulus of implementation_03 is part of the type, so there it is x's
OtherModulus(m) == IF m >= MaxModulus THEN m - 1 ELSE m + 1

Operands(c, x) ==
    ({ FieldNew(c, v, x.prime) : v \in RawValues(c) }
        \cup (IF c = "ch01_impl03"
              THEN {}
              ELSE {FieldNew(c, 0, OtherModulus(x.prime))}))
      \ {Panic, ErrNotPrime}

(***************************************************************************)
(* chapter_02: points.  A coordinate is an Option; implementation_03's     *)
(* enum Point(x, y) | Infinity is the record with both coordinates present *)
(* or both absent.                                                         *)
(***************************************************************************)
Some(v) == [some |-> TRUE, v |-> v]
None    == [some |-> FALSE, v |-> 0]

Pt(x, y, a, b) == [tag |-> "point", x |-> x, y |-> y, a |-> a, b |-> b]
PtPanic == [tag |-> "panic", x |-> None, y |-> None, a |-> 0, b |-> 0]
PtErr   == [tag |-> "err", x |-> None, y |-> None, a |-> 0, b |-> 0]
NoPt    == [tag |-> "none", x |-> None, y |-> None, a |-> 0, b |-> 0]

IsPt(r) == r.tag = "point"

\* `/` of i32, i64 and BigInt: the quotient rounded toward zero
TruncDiv(n, d) ==
    IF (n < 0) = (d < 0) THEN Abs(n) \div Abs(d) ELSE 0 - (Abs(n) \div Abs(d))

(***************************************************************************)
(* chapter_02 / implementation_01: Point<i32>                              *)
(***************************************************************************)
\* i32 arithmetic: [ovf |-> the exact result is no i32, v |-> the result
\* kept in 32 bits (two's complement)]
MaxI32 == 2147483647
MinI32 == 0 - MaxI32 - 1

\* the i32 that the low 32 bits of (-1)^neg * mag are
Wrap32(mag, neg) ==
    LET lo == LimbAt(mag, 1)
        hi == LimbAt(mag, 2)
    IN  IF ~neg
        THEN (IF hi >= HalfBase THEN (hi - Base) * Base + lo ELSE hi * Base + lo)
        ELSE IF hi < HalfBase \/ (hi = HalfBase /\ lo = 0)
        THEN (0 - hi) * Base - lo
        ELSE (Base - 1 - hi) * Base + (Base - lo)

I32Mul(a, b) ==
    IF Abs(a) < HalfBase /\ Abs(b) < HalfBase
    THEN [ovf |-> FALSE, v |-> a * b]
    ELSE LET mag == MulBig(ToLimbs(Abs(a)), ToLimbs(Abs(b)))
             neg == (a < 0) # (b < 0)
             fits == /\ FitsLimbs(mag, U32Limbs)
                     /\ \/ LimbAt(mag, 2) < HalfBase
                        \/ (neg /\ LimbAt(mag, 2) = HalfBase /\ LimbAt(mag, 1) = 0)
         IN  [ovf |-> ~fits, v |-> Wrap32(mag, neg)]

I32Add(a, b) ==
    IF a >= 0 /\ b > MaxI32 - a
    THEN [ovf |-> TRUE, v |-> (a - MaxI32 - 1) + (b - MaxI32 - 1)]
    ELSE IF a < 0 /\ b < MinI32 - a
    THEN [ovf |-> TRUE, v |-> (a + MaxI32 + 1) + (b + MaxI32 + 1)]
    ELSE [ovf |-> FALSE, v |-> a + b]

\* an i32 operation that overflows panics in the build with overflow checks
\* and keeps the low 32 bits in the other one
Pt1_new(x, y, a, b, bld) ==
    IF x.some /\ y.some
    THEN LET y2  == I32Mul(y.v, y.v)
             xx  == I32Mul(x.v, x.v)
             x3  == I32Mul(xx.v, x.v)
             ax  == I32Mul(a, x.v)
             s1  == I32Add(x3.v, ax.v)
             s2  == I32Add(s1.v, b)
             ovf == y2.ovf \/ xx.ovf \/ x3.ovf \/ ax.ovf \/ s1.ovf \/ s2.ovf
         IN  IF ovf /\ bld = "debug"
             THEN PtPanic
             ELSE IF y2.v # s2.v
             THEN PtPanic
             ELSE Pt(x, y, a, b)
    ELSE Pt(None, None, a, b)

Pt1_eq(self, other) ==
    self.x = other.x /\ self.y = other.y /\ self.a = other.a /\ self.b = other.b

\* the slope and the sum's coordinates are computed on magnitudes that
\* no i32 operation leaves (AddInBounds)
Pt1_add(self, other, bld) ==
    IF self.a # other.a \/ self.b # other.b THEN PtPanic
    ELSE IF ~self.x.some  THEN Pt(None, None, self.a, self.b)
    ELSE IF ~other.x.some THEN Pt(None, None, self.a, self.b)
    ELSE IF ~self.y.some  THEN Pt(None, None, self.a, self.b)
    ELSE IF ~other.y.some THEN Pt(None, None, self.a, self.b)
    ELSE LET x1 == self.x.v
             x2 == other.x.v
             y1 == self.y.v
             y2 == other.y.v
         IN  IF x1 # x2
             THEN LET s  == TruncDiv(y2 - y1, x2 - x1)
                      x3 == s * s - x1 - x2
                      y3 == s * (x1 - x3) - y1
                  IN  Pt1_new(Some(x3), Some(y3), self.a, self.b, bld)
             ELSE IF Pt1_eq(self, other) /\ y1 = 0 * x1
             THEN Pt1_new(None, None, self.a, self.b, bld)
             ELSE IF Pt1_eq(self, other)
             THEN LET s  == TruncDiv(3 * x1 * x1 + self.a, 2 * y1)
                      x3 == s * s - 2 * x1
                      y3 == s * (x1 - x3) - y1
                  IN  Pt1_new(Some(x3), Some(y3), self.a, self.b, bld)
             ELSE Pt(None, None, self.a, self.b)

(***************************************************************************)
(* chapter_02 / implementation_02: Point { x, y: Option<BigInt>, a, b }    *)
(***************************************************************************)
Pt2_new(x, y, a, b) ==
    IF x.some /\ y.some
    THEN IF y.v * y.v # x.v * x.v * x.v + a * x.v + b
         THEN PtPanic
         ELSE Pt(x, y, a, b)
    ELSE IF x.some /\ ~y.some THEN PtPanic
    ELSE IF ~x.some /\ y.some THEN PtPanic
    ELSE Pt(x, y, a, b)

\* the guard of the third match arm, with the negation left out
Pt2_inverse_guard_NoNegation(self, rhs) ==
    self.x.v = rhs.x.v /\ self.y.v = rhs.y.v

\* the guard of the third match arm: self_x == rhs_x && self_y == -rhs_y
Pt2_inverse_guard(self, rhs) ==
    self.x.v = rhs.x.v /\ self.y.v = 0 - rhs.y.v

\* the match arms in their order; the sum of the chord arm is built as a
\* struct literal, not through Point::new
Pt2_add(self, rhs) ==
    IF self.a # rhs.a \/ self.b # rhs.b THEN PtPanic
    ELSE IF ~self.x.some /\ rhs.x.some THEN rhs
    ELSE IF self.x.some /\ ~rhs.x.some THEN self
    ELSE IF /\ self.x.some /\ self.y.some /\ rhs.x.some /\ rhs.y.some
            /\ Pt2_inverse_guard(self, rhs)
    THEN Pt(None, None, self.a, self.b)
    ELSE IF /\ self.x.some /\ self.y.some /\ rhs.x.some /\ rhs.y.some
            /\ self.x.v # rhs.x.v
    THEN LET slope    == TruncDiv(rhs.y.v - self.y.v, rhs.x.v - self.x.v)
             result_x == slope * slope - self.x.v - rhs.x.v
             result_y == slope * (self.x.v - result_x) - self.y.v
         IN  Pt(Some(result_x), Some(result_y), self.a, self.b)
    ELSE self

(***************************************************************************)
(* chapter_02 / implementation_03: enum Point<const A: i64, const B: i64>  *)
(***************************************************************************)
\* the ensure! condition: y.pow(2) == (x.pow(3) + A * x + B)
Pt3_ensure(x, y, A, B) == y * y = (x * x * x + A * x + B)

Pt3_new_point(x, y, A, B) ==
    IF Pt3_ensure(x, y, A, B)
    THEN Pt(Some(x), Some(y), A, B)
    ELSE PtErr

Pt3_new_infinity(A, B) == Pt(None, None, A, B)

\* Result::unwrap
Unwrap(r) == IF r.tag = "err" THEN PtPanic ELSE r

Pt3_add(self, other) ==
    LET A  == self.a
        B  == self.b
        x1 == self.x.v
        y1 == self.y.v
        x2 == other.x.v
        y2 == other.y.v
    IN  IF ~self.x.some /\ ~other.x.some THEN Pt3_new_infinity(A, B)
        ELSE IF ~self.x.some /\ other.x.some THEN other
        ELSE IF self.x.some /\ ~other.x.some THEN self
        ELSE IF x1 = x2 /\ y1 # y2 THEN Pt3_new_infinity(A, B)
        ELSE IF x1 = x2 /\ (y1 = 0 \/ y2 = 0) THEN Pt3_new_infinity(A, B)
        ELSE IF x1 = x2 /\ y1 = y2
        THEN LET slope == TruncDiv(3 * x1 * x1 + A, 2 * y1)
                 x3    == slope * slope - (2 * x1)
                 y3    == slope * (x1 - x3) - y1
             IN  Unwrap(Pt3_new_point(x3, y3, A, B))
        ELSE IF x1 # x2
        THEN LET slope == TruncDiv(y2 - y1, x2 - x1)
                 x3    == slope * slope - (x1 + x2)
                 y3    == slope * (x1 - x3) - y1
             IN  Unwrap(Pt3_new_point(x3, y3, A, B))
        ELSE PtPanic                 \* todo!()

(***************************************************************************)
(* chapter_02: the calls a caller can make, by crate.                      *)
(***************************************************************************)
CurveAs == (0 - MinAMag)..MaxA
CurveBs == 0..MaxB
Xs == (0 - MaxX)..MaxX
\* implementation_01 is also offered a y whose square leaves i32;
\* BigInt is exact, and the i64 of implementation_03 is exact on every
\* magnitude offered to it
WideY == 2^16
Ys(c) == ((0 - MaxY)..MaxY)
            \cup (IF c = "ch02_impl01" THEN {WideY, 0 - WideY} ELSE {})
OptXs == {None} \cup {Some(x) : x \in Xs}
OptYs(c) == {None} \cup {Some(y) : y \in Ys(c)}

\* Point::new of implementation_01 / 02; new_point and new_infinity of 03
PointNew(c, x, y, a, b, bld) ==
    CASE c = "ch02_impl01" -> Pt1_new(x, y, a, b, bld)
      [] c = "ch02_impl02" -> Pt2_new(x, y, a, b)
      [] OTHER             -> IF x.some /\ y.some
                              THEN Pt3_new_point(x.v, y.v, a, b)
                              ELSE Pt3_new_infinity(a, b)

PointAdd(c, p, q, bld) ==
    CASE c = "ch02_impl01" -> Pt1_add(p, q, bld)
      [] c = "ch02_impl02" -> Pt2_add(p, q)
      [] OTHER             -> Pt3_add(p, q)

\* the points a caller can pass as the right operand of p: the points the
\* constructors return on p's curve and, where the curve is a run-time
\* field, on a neighbouring one (the mismatch)
OtherB(b) == IF b >= MaxB THEN b - 1 ELSE b + 1

PointOperands(c, p, bld) ==
    { PointNew(c, x, y, p.a, b, bld) :
        x \in OptXs, y \in OptYs(c),
        b \in (IF c = "ch02_impl03" THEN {p.b} ELSE {p.b, OtherB(p.b)}) }
      \ {PtPanic, PtErr}

\* the match arm of implementation_02's add that decides self + rhs
Pt2_arm(self, rhs) ==
    IF self.a # rhs.a \/ self.b # rhs.b THEN "mismatch"
    ELSE IF ~self.x.some /\ rhs.x.some THEN "infinity_left"
    ELSE IF self.x.some /\ ~rhs.x.some THEN "infinity_right"
    ELSE IF /\ self.x.some /\ self.y.some /\ rhs.x.some /\ rhs.y.some
            /\ Pt2_inverse_guard(self, rhs)
    THEN "inverse"
    ELSE IF /\ self.x.some /\ self.y.some /\ rhs.x.some /\ rhs.y.some
            /\ self.x.v # rhs.x.v
    THEN "chord"
    ELSE "catch_all"                 \* _ => self

\* the match arm of implementation_03's add that decides self + other
Pt3_arm(self, other) ==
    LET x1 == self.x.v
        y1 == self.y.v
        x2 == other.x.v
        y2 == other.y.v
    IN  IF ~self.x.some /\ ~other.x.some THEN "infinity_both"
        ELSE IF ~self.x.some /\ other.x.some THEN "infinity_left"
        ELSE IF self.x.some /\ ~other.x.some THEN "infinity_right"
        ELSE IF x1 = x2 /\ y1 # y2 THEN "inverse"
        ELSE IF x1 = x2 /\ (y1 = 0 \/ y2 = 0) THEN "vertical_tangent"
        ELSE IF x1 = x2 /\ y1 = y2 THEN "doubling"
        ELSE IF x1 # x2 THEN "chord"
        ELSE "catch_all"             \* _ => todo!()

Finite(p) == p.x.some /\ p.y.some

\* the slope and the sum's coordinates that add(p, q) computes stay inside
\* the modelled magnitudes
AddInBounds(p, q) ==
    (Finite(p) /\ Finite(q) /\ (p.x.v # q.x.v \/ (p.y.v = q.y.v /\ p.y.v # 0)))
        => LET s == IF p.x.v # q.x.v
                    THEN TruncDiv(q.y.v - p.y.v, q.x.v - p.x.v)
                    ELSE TruncDiv(3 * p.x.v * p.x.v + p.a, 2 * p.y.v)
           IN  /\ Abs(s) <= MaxSlope
               /\ LET x3 == s * s - p.x.v - q.x.v
                  IN  /\ Abs(x3) <= MaxMidX
                      /\ Abs(s * (p.x.v - x3) - p.y.v) <= MaxMidY

PCall(op, p, q, res, n) ==
    [op |-> op, p |-> p, q |-> q, res |-> res, n |-> n]

FCall(op, a, b, k, m, res) ==
    [op |-> op, a |-> a, b |-> b, k |-> k, m |-> m, res |-> res]

FIdle == FCall("idle", NoElem, NoElem, 0, 0, NoElem)
PIdle == PCall("idle", NoPt, NoPt, NoPt, 0)

\* the build profile decides what an overflow does; it is drawn for the
\* crates that compute on magnitudes their integer type can leave
Init ==
    /\ crate \in FieldCrates \cup PointCrates
    /\ build \in (IF crate \in {"ch01_impl01", "ch01_impl03", "ch02_impl01"}
                  THEN Builds ELSE {"release"})
    /\ flast = FIdle
    /\ plast = PIdle

(***************************************************************************)
(* chapter_01 calls.  A run starts by constructing an element; every later *)
(* call takes what the last call returned as self; a call that panics or   *)
(* returns Err ends the run.                                               *)
(***************************************************************************)
\* T::new(value, modulus)
New ==
    /\ crate \in FieldCrates
    /\ flast.op = "idle"
    /\ \E value \in RawValues(crate), modulus \in Moduli :
          flast' = FCall("new", NoElem, NoElem, value, modulus,
                         FieldNew(crate, value, modulus))
    /\ UNCHANGED <<crate, build, plast>>

\* self + other
Add ==
    /\ crate \in FieldCrates
    /\ IsElem(flast.res)
    /\ \E other \in Operands(crate, flast.res) :
          flast' = FCall("add", flast.res, other, 0, 0,
                         FieldAdd(crate, flast.res, other))
    /\ UNCHANGED <<crate, build, plast>>

\* self - other
Sub ==
    /\ crate \in {"ch01_impl02", "ch01_impl03"}
    /\ IsElem(flast.res)
    /\ \E other \in Operands(crate, flast.res) :
          flast' = FCall("sub", flast.res, other, 0, 0,
                         FieldSub(crate, flast.res, other))
    /\ UNCHANGED <<crate, build, plast>>

\* self * other
Mul ==
    /\ crate \in FieldCrates
    /\ IsElem(flast.res)
    /\ \E other \in Operands(crate, flast.res) :
          flast' = FCall("mul", flast.res, other, 0, 0,
                         FieldMul(crate, flast.res, other))
    /\ UNCHANGED <<crate, build, plast>>

\* self / other
Div ==
    /\ crate \in FieldCrates
    /\ IsElem(flast.res)
    /\ \E other \in Operands(crate, flast.res) :
          flast' = FCall("div", flast.res, other, 0, 0,
                         FieldDiv(crate, flast.res, other, build))
    /\ UNCHANGED <<crate, build, plast>>

\* self.pow(k)
Pow ==
    /\ crate \in FieldCrates
    /\ IsElem(flast.res)
    /\ \E k \in Exponents :
          flast' = FCall("pow", flast.res, NoElem, k, 0,
                         FieldPow(crate, flast.res, k, build))
    /\ UNCHANGED <<crate, build, plast>>

\* self += other
AddAssign ==
    /\ crate = "ch01_impl03"
    /\ IsElem(flast.res)
    /\ \E other \in Operands(crate, flast.res) :
          flast' = FCall("add_assign", flast.res, other, 0, 0,
                         FFE3_add_assign(flast.res, other))
    /\ UNCHANGED <<crate, build, plast>>

\* self -= other
SubAssign ==
    /\ crate = "ch01_impl03"
    /\ IsElem(flast.res)
    /\ \E other \in Operands(crate, flast.res) :
          flast' = FCall("sub_assign", flast.res, other, 0, 0,
                         FFE3_sub_assign(flast.res, other))
    /\ UNCHANGED <<crate, build, plast>>

\* self *= other
MulAssign ==
    /\ crate = "ch01_impl03"
    /\ IsElem(flast.res)
    /\ \E other \in Operands(crate, flast.res) :
          flast' = FCall("mul_assign", flast.res, other, 0, 0,
                         FFE3_mul_assign(flast.res, other))
    /\ UNCHANGED <<crate, build, plast>>

(***************************************************************************)
(* chapter_02 calls.  A run starts by constructing a point and adds up to  *)
(* MaxAdds points to it.                                                   *)
(***************************************************************************)
\* Point::new(x, y, a, b), with Option coordinates
PointNewCall ==
    /\ crate \in {"ch02_impl01", "ch02_impl02"}
    /\ plast.op = "idle"
    /\ \E x \in OptXs, y \in OptYs(crate), a \in CurveAs, b \in CurveBs :
          plast' = PCall("new", Pt(x, y, a, b), NoPt,
                         PointNew(crate, x, y, a, b, build), 0)
    /\ UNCHANGED <<crate, build, flast>>

\* Point::<A, B>::new_point(x, y)
NewPoint ==
    /\ crate = "ch02_impl03"
    /\ plast.op = "idle"
    /\ \E x \in Xs, y \in Ys(crate), A \in CurveAs, B \in CurveBs :
          plast' = PCall("new", Pt(Some(x), Some(y), A, B), NoPt,
                         Pt3_new_point(x, y, A, B), 0)
    /\ UNCHANGED <<crate, build, flast>>

\* Point::<A, B>::new_infinity()
NewInfinity ==
    /\ crate = "ch02_impl03"
    /\ plast.op = "idle"
    /\ \E A \in CurveAs, B \in CurveBs :
          plast' = PCall("new", Pt(None, None, A, B), NoPt,
                         Pt3_new_infinity(A, B), 0)
    /\ UNCHANGED <<crate, build, flast>>

\* self + other
PointAddCall ==
    /\ crate \in PointCrates
    /\ IsPt(plast.res)
    /\ plast.n < MaxAdds
    /\ \E other \in PointOperands(crate, plast.res, build) :
          /\ AddInBounds(plast.res, other)
          /\ plast' = PCall("add", plast.res, other,
                            PointAdd(crate, plast.res, other, build),
                            plast.n + 1)
    /\ UNCHANGED <<crate, build, flast>>

FieldNext ==
    \/ New
    \/ Add
    \/ Sub
    \/ Mul
    \/ Div
    \/ Pow
    \/ AddAssign
    \/ SubAssign
    \/ MulAssign

PointNext ==
    \/ PointNewCall
    \/ NewPoint
    \/ NewInfinity
    \/ PointAddCall

Next == FieldNext \/ PointNext

Spec == Init /\ [][Next]_vars

\* the runs of the chapter_01 crates and of the chapter_02 crates
FieldInit == Init /\ crate \in FieldCrates
PointInit == Init /\ crate \in PointCrates
FieldSpec == FieldInit /\ [][FieldNext]_vars
PointSpec == PointInit /\ [][PointNext]_vars

(***************************************************************************)
(* Arithmetic the properties are stated in.                                *)
(***************************************************************************)
IsPrimeNat(p) == p > 1 /\ \A d \in 2..(p - 1) : p % d # 0

RECURSIVE ExpMod(_, _, _)
ExpMod(a, e, p) == IF e = 0 THEN 1 % p ELSE ((a % p) * ExpMod(a, e - 1, p)) % p

(***************************************************************************)
(* chapter_01 properties                                                   *)
(***************************************************************************)

\* C1: every field element over a prime p that a call returns (new, add,
\* sub, mul, div, pow, +=, -=, *=) has 0 <= value < p.
C1_ValueInRange ==
    (IsElem(flast.res) /\ IsPrimeNat(flast.res.prime))
        => (0 <= flast.res.num /\ flast.res.num < flast.res.prime)

\* C8: over a prime p, pow(a, k) returns the element a.value^e mod p with
\* e = k mod (p - 1) in [0, p - 1), so e = 0 gives 1.
C8_PowFermat ==
    (/\ flast.op = "pow"
     /\ IsPrimeNat(flast.a.prime)
     /\ 0 <= flast.a.num /\ flast.a.num < flast.a.prime)
        => flast.res = Elem(ExpMod(flast.a.num,
                                   flast.k % (flast.a.prime - 1),
                                   flast.a.prime),
                            flast.a.prime)

\* C9: over a prime p, for a.value # 0, a * a.pow(-1) is the element 1.
C9_NegativeOneIsInverse ==
    (/\ flast.op = "pow"
     /\ flast.k = 0 - 1
     /\ IsPrimeNat(flast.a.prime)
     /\ flast.a.num # 0)
        => (/\ IsElem(flast.res)
            /\ FieldMul(crate, flast.a, flast.res) = Elem(1, flast.a.prime))

\* C10: a / b with b.value = 0, both of the same field, fails and returns
\* no field element.
C10_DivByZeroFails ==
    (/\ flast.op = "div"
     /\ flast.a.prime = flast.b.prime
     /\ flast.b.num = 0)
        => flast.res.tag = "panic"

\* C11: over a prime p, add is commutative and associative and the element
\* 0 is its identity: a + b = b + a, (a + b) + c = a + (b + c) for every
\* c that new returns over p, and a + 0 = a.
C11_AddLaws ==
    (/\ flast.op = "add"
     /\ flast.a.prime = flast.b.prime
     /\ IsPrimeNat(flast.a.prime))
        => /\ FieldAdd(crate, flast.b, flast.a) = flast.res
           /\ \A c \in Operands(crate, flast.a) :
                 c.prime = flast.a.prime
                    => FieldAdd(crate, flast.res, c)
                         = FieldAdd(crate, flast.a, FieldAdd(crate, flast.b, c))
           /\ (flast.b.num = 0 => flast.res = flast.a)

\* C12: FiniteFieldElement::<P>::new returns NotPrimeError exactly when P
\* is not a prime number (0, 1 and composites included).
C12_PrimalityValidated ==
    (crate = "ch01_impl03" /\ flast.op = "new")
        => (flast.res = ErrNotPrime <=> ~IsPrimeNat(flast.m))

\* C15: over a prime p, with operands in [0, p), no intermediate value of
\* pow, mul or div in the fixed-width crates leaves the integer type
\* (u32 in implementation_01, i128 in implementation_03).
C15_NoOverflow ==
    LET a == flast.a
        b == flast.b
        p == flast.a.prime
        inRange(e) == 0 <= e.num /\ e.num < p
    IN  (/\ crate \in {"ch01_impl01", "ch01_impl03"}
         /\ flast.op \in {"pow", "mul", "div"}
         /\ IsPrimeNat(p)
         /\ inRange(a)
         /\ flast.op \in {"mul", "div"} => (b.prime = p /\ inRange(b)))
            => CASE flast.op = "pow" ->
                      IF crate = "ch01_impl01"
                      THEN ~FE1_pow_overflows(a, flast.k)
                      ELSE ~FFE3_pow_overflows(a, flast.k)
                 [] flast.op = "mul" ->
                      IF crate = "ch01_impl01"
                      THEN ~FE1_mul_overflows(a, b)
                      ELSE ~FFE3_mul_overflows(a, b)
                 [] OTHER ->
                      IF crate = "ch01_impl01"
                      THEN b.num # 0 => ~FE1_pow_overflows(b, p - 2)
                      ELSE ~FFE3_pow_overflows(b, p - 2)

(***************************************************************************)
(* chapter_02 properties                                                   *)
(***************************************************************************)
SameCurve(p, q) == p.a = q.a /\ p.b = q.b
Infinity(a, b)  == Pt(None, None, a, b)
\* y^2 = x^3 + a x + b over the integers; the square is taken exactly
OnCurve(x, y, a, b) ==
    LET rhs == x * x * x + a * x + b
    IN  /\ rhs >= 0
        /\ Norm(MulBig(ToLimbs(Abs(y)), ToLimbs(Abs(y)))) = ToLimbs(rhs)

\* the last call is an addition of two points of one curve
AddedOnOneCurve == plast.op = "add" /\ SameCurve(plast.p, plast.q)

\* C2: P + infinity = P and infinity + P = P for every valid point P.
C2_IdentityLaw ==
    AddedOnOneCurve
        => /\ (~Finite(plast.q) => plast.res = plast.p)
           /\ (~Finite(plast.p) => plast.res = plast.q)

\* C3: for a finite P = (x1, y1) with y1 # 0, P + P is the finite point
\* (x3, y3) with s = (3 x1^2 + a) / (2 y1), x3 = s^2 - 2 x1,
\* y3 = s (x1 - x3) - y1; it is neither P nor infinity.
C3_Doubling ==
    (/\ AddedOnOneCurve
     /\ Finite(plast.p)
     /\ plast.q = plast.p
     /\ plast.p.y.v # 0)
        => LET x1 == plast.p.x.v
               y1 == plast.p.y.v
               s  == TruncDiv(3 * x1 * x1 + plast.p.a, 2 * y1)
               x3 == s * s - 2 * x1
               y3 == s * (x1 - x3) - y1
           IN  /\ plast.res = Pt(Some(x3), Some(y3), plast.p.a, plast.p.b)
               /\ plast.res # plast.p

\* C4: P + Q and Q + P have the same outcome: equal points, or both fail.
C4_Commutative ==
    AddedOnOneCurve
        => PointAdd(crate, plast.q, plast.p, build) = plast.res

\* C5: P + (x, -y) is infinity for every finite P = (x, y), also when
\* y = 0 and the two operands are the same point.
C5_InverseIsInfinity ==
    (/\ AddedOnOneCurve
     /\ Finite(plast.p) /\ Finite(plast.q)
     /\ plast.q.x.v = plast.p.x.v
     /\ plast.q.y.v = 0 - plast.p.y.v)
        => plast.res = Infinity(plast.p.a, plast.p.b)

\* C5 witness: a finite point with y # 0 was added to its mirror image
\* (x, -y) and the sum is infinity
C5_Witness ==
    /\ AddedOnOneCurve
    /\ Finite(plast.p) /\ Finite(plast.q)
    /\ plast.p.y.v # 0
    /\ plast.q.x.v = plast.p.x.v
    /\ plast.q.y.v = 0 - plast.p.y.v
    /\ plast.res = Infinity(plast.p.a, plast.p.b)

\* C6: for finite P, Q with x1 # x2, P + Q is the finite point (x3, y3)
\* with x3 = s^2 - x1 - x2, y3 = s (x1 - x3) - y1, where s is the exact
\* quotient (y2 - y1) / (x2 - x1): s (x2 - x1) = y2 - y1.
C6_Chord ==
    (/\ AddedOnOneCurve
     /\ Finite(plast.p) /\ Finite(plast.q)
     /\ plast.p.x.v # plast.q.x.v)
        => LET x1 == plast.p.x.v
               y1 == plast.p.y.v
               x2 == plast.q.x.v
               y2 == plast.q.y.v
               s  == TruncDiv(y2 - y1, x2 - x1)
               x3 == s * s - x1 - x2
               y3 == s * (x1 - x3) - y1
           IN  /\ s * (x2 - x1) = y2 - y1
               /\ plast.res = Pt(Some(x3), Some(y3), plast.p.a, plast.p.b)

\* C7: constructing the finite point (x, y) on curve (a, b) succeeds, and
\* returns that point, exactly when y^2 = x^3 + a x + b; otherwise no
\* point is returned; and no call returns a point with exactly one
\* coordinate present.
C7_ConstructionValidates ==
    /\ (plast.op = "new" /\ Finite(plast.p))
          => /\ IsPt(plast.res)
                  <=> OnCurve(plast.p.x.v, plast.p.y.v, plast.p.a, plast.p.b)
             /\ IsPt(plast.res) => plast.res = plast.p
    /\ IsPt(plast.res) => (plast.res.x.some <=> plast.res.y.some)

\* C13: an addition of two points of one curve is decided by a named arm
\* of the match, never by the catch-all (`_ => self`, `_ => todo!()`).
C13_CaseAnalysisExhaustive ==
    (AddedOnOneCurve /\ crate \in {"ch02_impl02", "ch02_impl03"})
        => (IF crate = "ch02_impl02"
            THEN Pt2_arm(plast.p, plast.q)
            ELSE Pt3_arm(plast.p, plast.q)) # "catch_all"

\* C14: every point that add returns is infinity or a finite point, both
\* coordinates present, with y^2 = x^3 + a x + b.
C14_Closure ==
    (plast.op = "add" /\ IsPt(plast.res))
        => /\ plast.res.x.some <=> plast.res.y.some
           /\ Finite(plast.res)
                 => OnCurve(plast.res.x.v, plast.res.y.v,
                            plast.res.a, plast.res.b)

====
